---- MODULE Spec2Model ----
(***************************************************************************)
(* D3AttentionGraph: the circuit view of attention patterns.               *)
(*                                                                         *)
(* Two variants of the component are modelled, as the repository holds     *)
(* them: the class component (componentDidMount / componentDidUpdate /     *)
(* renderGraph) and the function component (useEffect with dependencies    *)
(* [data, width, height]).  Both run the same draw pass over an <svg>      *)
(* element.                                                                *)
(*                                                                         *)
(* Numbers are exact rationals <<n, d>> (d > 0, lowest terms): pixel       *)
(* coordinates and weights are JavaScript numbers, and every operation     *)
(* the draw pass applies to them (the linear scale, y - 10, weight * 2)    *)
(* is modelled on the rationals.                                           *)
(***************************************************************************)
EXTENDS Integers, Sequences, FiniteSets, TLC

VARIABLES
    variant,            \* "class" | "function": which component is mounted
    props,              \* the input the host last supplied
    svgRef,             \* svgRef.current: "null" | "svg"
    surface,            \* the children of the <svg> element, in document order
    state,              \* class component: this.state
    updateQueue,        \* class component: setState updates not yet applied
    phase,              \* position of the component in React's lifecycle
    nestedUpdateCount,  \* React's count of updates scheduled during a commit
    deps,               \* function component: dependencies of the last effect
    effectPending,      \* function component: an effect is scheduled
    passes,             \* draw passes completed since the input last changed
    lastDrawn,          \* the input of the last completed draw pass
    inputChanges        \* how often the host has changed the input since the mount

vars == <<variant, props, svgRef, surface, state, updateQueue, phase,
          nestedUpdateCount, deps, effectPending, passes, lastDrawn, inputChanges>>

-----------------------------------------------------------------------------
(* Bounds of the model *)

MaxLayers == 2
MaxTokens == 2
MaxPatterns == 2
MaxInputChanges == 3
MaxNestedUpdates == 3

-----------------------------------------------------------------------------
(* JavaScript numbers as exact rationals *)

Abs(n) == IF n < 0 THEN -n ELSE n

RECURSIVE GCD(_, _)
GCD(a, b) == IF b = 0 THEN a ELSE GCD(b, a % b)

\* The rational n/d (d # 0) in lowest terms with a positive denominator.
Rat(n, d) ==
    LET s == IF d < 0 THEN -1 ELSE 1
        g == GCD(Abs(n), Abs(d))
    IN  <<(s * n) \div g, (s * d) \div g>>

Num(n) == <<n, 1>>
RatAdd(a, b) == Rat(a[1] * b[2] + b[1] * a[2], a[2] * b[2])
RatSub(a, b) == Rat(a[1] * b[2] - b[1] * a[2], a[2] * b[2])
RatMul(a, b) == Rat(a[1] * b[1], a[2] * b[2])
RatDiv(a, b) == Rat(a[1] * b[2], a[2] * b[1])

-----------------------------------------------------------------------------
(* d3.scaleLinear().domain([d0, d1]).range([r0, r1]) *)

normalizeCollapsedToStart(a, b, x) ==
    IF b - a # 0 THEN RatDiv(Num(x - a), Num(b - a)) ELSE Num(0)

\* d3-scale normalize(a, b): x -> (x - a) / (b - a); a collapsed domain
\* (b - a = 0) is the constant 0.5, so nothing is divided by zero.
normalize(a, b, x) ==
    IF b - a # 0 THEN RatDiv(Num(x - a), Num(b - a)) ELSE Rat(1, 2)

\* d3-interpolate interpolateNumber(a, b): t -> a * (1 - t) + b * t
interpolateNumber(a, b, t) ==
    RatAdd(RatMul(Num(a), RatSub(Num(1), t)), RatMul(Num(b), t))

scaleLinear(d0, d1, r0, r1, x) == interpolateNumber(r0, r1, normalize(d0, d1, x))

margin == [top |-> 20, right |-> 20, bottom |-> 20, left |-> 20]
innerWidth(width) == width - margin.left - margin.right
innerHeight(height) == height - margin.top - margin.bottom

xScale(numTokens, width, t) == scaleLinear(0, numTokens - 1, 0, innerWidth(width), t)
yScale(numLayers, height, l) == scaleLinear(0, numLayers - 1, 0, innerHeight(height), l)

-----------------------------------------------------------------------------
(* Values of the data model *)

\* An object reference that is null (ref 0 is the null reference).
NULL == [ref |-> 0]
Truthy(obj) == obj.ref # 0

\* tokens?: string[] -- absent (undefined) or an array
NoTokens == [present |-> FALSE, items |-> <<>>]
TokenArray(items) == [present |-> TRUE, items |-> items]

\* A JavaScript value that is a string or undefined.
Undefined == <<"undefined">>
Str(s) == <<"string", s>>

\* array[i] for a 0-based index: undefined outside the array, never an error
ArrayGet(items, i) ==
    IF i >= 0 /\ i < Len(items) THEN Str(items[i + 1]) ELSE Undefined

\* `${v}` for a string or undefined
TemplateValue(v) == IF v = Undefined THEN "undefined" ELSE v[2]

AttentionPattern(sl, st, dl, dt, w, h) ==
    [sourceLayer |-> sl, sourceToken |-> st, destLayer |-> dl, destToken |-> dt,
     weight |-> w, head |-> h]

GraphData(ref, numLayers, numTokens, tokens, attentionPatterns) ==
    [ref |-> ref, numLayers |-> numLayers, numTokens |-> numTokens,
     tokens |-> tokens, attentionPatterns |-> attentionPatterns]

-----------------------------------------------------------------------------
(* The draw pass: renderGraph of the class component, and the body of the  *)
(* effect of the function component, which is the same code                *)

\* label: tokens ? tokens[t] : `T${t}`
label(tokens, t) ==
    IF tokens.present THEN ArrayGet(tokens.items, t) ELSE Str("T" \o ToString(t))

Node(data, width, height, l, t) ==
    [layer |-> l, token |-> t,
     x |-> xScale(data.numTokens, width, t),
     y |-> yScale(data.numLayers, height, l),
     label |-> label(data.tokens, t)]

\* for (let t = 0; t < numTokens; t++) nodes.push({...})
RECURSIVE tokenLoop(_, _, _, _, _, _)
tokenLoop(data, width, height, l, t, nodes) ==
    IF t < data.numTokens
    THEN tokenLoop(data, width, height, l, t + 1,
                   Append(nodes, Node(data, width, height, l, t)))
    ELSE nodes

\* for (let l = 0; l < numLayers; l++) { ... }
RECURSIVE layerLoop(_, _, _, _, _)
layerLoop(data, width, height, l, nodes) ==
    IF l < data.numLayers
    THEN layerLoop(data, width, height, l + 1,
                   tokenLoop(data, width, height, l, 0, nodes))
    ELSE nodes

createNodesColumnMajor(data, width, height) ==
    LET cell(k) == Node(data, width, height, (k - 1) % data.numLayers,
                        (k - 1) \div data.numLayers)
    IN  IF data.numLayers >= 1 /\ data.numTokens >= 1
        THEN [k \in 1..(data.numLayers * data.numTokens) |-> cell(k)]
        ELSE <<>>

createNodes(data, width, height) == layerLoop(data, width, height, 0, <<>>)

\* The number of children of the group that a selectAll(tag) selects.
CountTag(children, tag) ==
    Cardinality({i \in 1..Len(children) : children[i].tag = tag})

\* selection.data(nodes).enter(): the data join is by index, so the entering
\* data are the nodes past the elements already selected.
Enter(children, tag, nodes) ==
    SubSeq(nodes, CountTag(children, tag) + 1, Len(nodes))

Circle(d) == [tag |-> "circle", cx |-> d.x, cy |-> d.y, r |-> 5, fill |-> "#e5e7eb"]

Text(d) ==
    [tag |-> "text", x |-> d.x, y |-> RatSub(d.y, Num(10)),
     textAnchor |-> "middle", fontSize |-> "12px",
     text |-> "L" \o ToString(d.layer) \o "-" \o TemplateValue(d.label)]

\* g.selectAll("circle").data(nodes).enter().append("circle")...
drawNodes(children, nodes) ==
    LET entering == Enter(children, "circle", nodes)
    IN  children \o [i \in 1..Len(entering) |-> Circle(entering[i])]

\* g.selectAll("text").data(nodes).enter().append("text")...
addLabels(children, nodes) ==
    LET entering == Enter(children, "text", nodes)
    IN  children \o [i \in 1..Len(entering) |-> Text(entering[i])]

\* nodes.find(n => n.layer === layer && n.token === token): the index of the
\* first match, 0 when there is none (find returns undefined).
RECURSIVE findFrom(_, _, _, _)
findFrom(nodes, layer, token, i) ==
    IF i > Len(nodes) THEN 0
    ELSE IF nodes[i].layer = layer /\ nodes[i].token = token THEN i
    ELSE findFrom(nodes, layer, token, i + 1)

RECURSIVE findLayerFrom(_, _, _)
findLayerFrom(nodes, layer, i) ==
    IF i > Len(nodes) THEN 0
    ELSE IF nodes[i].layer = layer THEN i
    ELSE findLayerFrom(nodes, layer, i + 1)

findByLayerOnly(nodes, layer, token) == findLayerFrom(nodes, layer, 1)

find(nodes, layer, token) == findFrom(nodes, layer, token, 1)

LineUnscaledWidth(source, target, pattern) ==
    [tag |-> "line", x1 |-> source.x, y1 |-> source.y,
     x2 |-> target.x, y2 |-> target.y, stroke |-> "#3B82F6",
     strokeWidth |-> pattern.weight,
     opacity |-> pattern.weight]

Line(source, target, pattern) ==
    [tag |-> "line", x1 |-> source.x, y1 |-> source.y,
     x2 |-> target.x, y2 |-> target.y, stroke |-> "#3B82F6",
     strokeWidth |-> RatMul(pattern.weight, Num(2)),
     opacity |-> pattern.weight]

\* The body of the forEach callback for one pattern.
drawEdge(children, nodes, pattern) ==
    LET source == find(nodes, pattern.sourceLayer, pattern.sourceToken)
        target == find(nodes, pattern.destLayer, pattern.destToken)
    IN  IF source # 0 /\ target # 0
        THEN Append(children, Line(nodes[source], nodes[target], pattern))
        ELSE children

\* attentionPatterns.forEach(...), from index i on
RECURSIVE drawEdges(_, _, _, _)
drawEdges(children, nodes, attentionPatterns, i) ==
    IF i > Len(attentionPatterns) THEN children
    ELSE drawEdges(drawEdge(children, nodes, attentionPatterns[i]),
                   nodes, attentionPatterns, i + 1)

clearNothing(svgChildren) == svgChildren

\* d3.select(svgRef.current).selectAll("*").remove(): every descendant of the
\* <svg> element is removed.
clearSvg(svgChildren) == <<>>

Group(children) ==
    [tag |-> "g", transform |-> <<margin.left, margin.top>>, children |-> children]

groupChildrenEdgesFirst(data, width, height) ==
    LET nodes == createNodes(data, width, height)
    IN  addLabels(drawNodes(drawEdges(<<>>, nodes, data.attentionPatterns, 1), nodes),
                  nodes)

\* The children of the group after the pass: nodes, then labels, then edges.
groupChildren(data, width, height) ==
    LET nodes == createNodes(data, width, height)
    IN  drawEdges(addLabels(drawNodes(<<>>, nodes), nodes),
                  nodes, data.attentionPatterns, 1)

\* The draw pass from the clear on (data is not null, the ref is set): the
\* children of the <svg> element when the pass returns.
drawPass(svgChildren, data, width, height) ==
    Append(clearSvg(svgChildren), Group(groupChildren(data, width, height)))

\* renderGraph(): if (!this.state.data || !this.svgRef.current) return;
renderGraph(svgChildren, ref, data, width, height) ==
    IF ~Truthy(data) \/ ref = "null"
    THEN svgChildren
    ELSE drawPass(svgChildren, data, width, height)

-----------------------------------------------------------------------------
(* Inputs *)

Vocabulary == <<"The", "cat", "sat", "on", "mat">>

\* Grid sizes, the empty grid (0) included.
GridLayers == 0..MaxLayers
GridTokens == 0..MaxTokens

\* tokens omitted, or an array of 0..MaxTokens labels (so also too short)
TokenChoices ==
    {NoTokens} \cup {TokenArray(SubSeq(Vocabulary, 1, k)) : k \in 0..MaxTokens}

\* Edges whose endpoints are inside some grids and one past the range of
\* smaller ones (sourceLayer = numLayers, destToken = numTokens), with
\* weights inside and outside [0, 1].
Patterns ==
    { AttentionPattern(1, 1, 0, 0, Rat(4, 5), 0),
      AttentionPattern(0, 0, 0, 1, Rat(1, 2), 1),
      AttentionPattern(1, 0, 0, 0, Rat(3, 2), 0),
      AttentionPattern(0, 0, 0, 0, Rat(-1, 4), 2) }

PatternLists == UNION {[1..k -> Patterns] : k \in 0..MaxPatterns}

Widths == {40, 300}
Heights == {41, 200}

Input(data, width, height) == [data |-> data, width |-> width, height |-> height]
NoInput == Input(NULL, 0, 0)

Datasets ==
    {GraphData(1, nl, nt, tk, ap) :
        nl \in GridLayers, nt \in GridTokens, tk \in TokenChoices, ap \in PatternLists}

RenderInputs ==
    {Input(d, w, h) : d \in Datasets \cup {NULL}, w \in Widths, h \in Heights}

\* What the <svg> element may hold before a pass: nothing, an earlier frame,
\* or elements the pass itself never makes.
PriorSurfaces ==
    { <<>>,
      drawPass(<<>>, GraphData(2, 1, 2, NoTokens, <<>>), 300, 200),
      << [tag |-> "rect"], Group(<<[tag |-> "circle"]>>) >> }

\* The objects the host holds: the end-to-end dataset, a second object with
\* the same content, a dataset without labels, and an empty grid.
HostData ==
    { GraphData(1, 2, 2, TokenArray(<<"The", "cat">>),
                <<AttentionPattern(1, 1, 0, 0, Rat(4, 5), 0)>>),
      GraphData(2, 2, 2, TokenArray(<<"The", "cat">>),
                <<AttentionPattern(1, 1, 0, 0, Rat(4, 5), 0)>>),
      GraphData(3, 1, 2, NoTokens,
                <<AttentionPattern(1, 0, 0, 0, Rat(1, 2), 0),
                  AttentionPattern(0, 0, 0, 1, Rat(1, 2), 1)>>),
      GraphData(4, 0, 2, NoTokens, <<>>),
      NULL }

HostInputs == {Input(d, w, 200) : d \in HostData, w \in Widths}

\* Props as the host passes them: under args (Streamlit, App) or directly.
Props(viaArgs, input) ==
    [viaArgs |-> viaArgs, data |-> input.data, width |-> input.width,
     height |-> input.height]

\* const { data, width, height } = this.props.args || this.props
PropsInput(p) == Input(p.data, p.width, p.height)

-----------------------------------------------------------------------------
(* The draw pass as a step of the component *)

\* A call of the draw pass with `input` on the current <svg> element.
DrawStep(input) ==
    LET drew == Truthy(input.data) /\ svgRef # "null"
    IN  /\ surface' = renderGraph(surface, svgRef, input.data, input.width, input.height)
        /\ passes' = IF drew THEN passes + 1 ELSE passes
        /\ lastDrawn' = IF drew THEN input ELSE lastDrawn

-----------------------------------------------------------------------------
(* The class component *)

InitialState == Input(NULL, 1000, 700)

Update(hasData, input, callback) ==
    [hasData |-> hasData, data |-> input.data, width |-> input.width,
     height |-> input.height, callback |-> callback]

\* React merges the partial state of a setState into this.state.
Merge(st, u) ==
    Input(IF u.hasData THEN u.data ELSE st.data, u.width, u.height)

\* componentDidMount: this.setState({ width, height })
componentDidMount ==
    /\ variant = "class"
    /\ phase = "constructed"
    /\ svgRef' = "svg"
    /\ updateQueue' = Append(updateQueue, Update(FALSE, PropsInput(props), FALSE))
    /\ phase' = "update"
    /\ UNCHANGED <<variant, props, surface, state, nestedUpdateCount, deps,
                   effectPending, passes, lastDrawn, inputChanges>>

\* React applies the pending update and re-renders; in the commit it calls
\* componentDidUpdate, which calls setState again, unconditionally:
\*   this.setState({ data, width, height }, () => { this.renderGraph(); })
\* and then the callback of the update it has just applied, if it has one.
componentDidUpdate ==
    /\ variant = "class"
    /\ phase = "update"
    /\ updateQueue # <<>>
    /\ nestedUpdateCount < MaxNestedUpdates
    /\ LET u == Head(updateQueue)
       IN  /\ state' = Merge(state, u)
           /\ updateQueue' = Append(Tail(updateQueue), Update(TRUE, PropsInput(props), TRUE))
           /\ phase' = IF u.callback THEN "callback" ELSE "update"
    /\ nestedUpdateCount' = nestedUpdateCount + 1
    /\ UNCHANGED <<variant, props, svgRef, surface, deps, effectPending,
                   passes, lastDrawn, inputChanges>>

\* The callback of setState: () => { this.renderGraph(); }
setStateCallback ==
    /\ variant = "class"
    /\ phase = "callback"
    /\ DrawStep(state)
    /\ phase' = "update"
    /\ UNCHANGED <<variant, props, svgRef, state, updateQueue, nestedUpdateCount,
                   deps, effectPending, inputChanges>>

\* The updates nest without end; React stops them ("Maximum update depth
\* exceeded") and unmounts the tree: the ref is detached, the element keeps
\* its children.
maximumUpdateDepthExceeded ==
    /\ variant = "class"
    /\ phase = "update"
    /\ nestedUpdateCount >= MaxNestedUpdates
    /\ phase' = "aborted"
    /\ svgRef' = "null"
    /\ updateQueue' = <<>>
    /\ UNCHANGED <<variant, props, surface, state, nestedUpdateCount, deps,
                   effectPending, passes, lastDrawn, inputChanges>>

-----------------------------------------------------------------------------
(* The function component *)

\* The dependency array [data, width, height]: React compares each entry with
\* Object.is, an object by reference.
DepsWithoutWidth(input) == <<input.data.ref, input.height, input.height>>

Deps(input) == <<input.data.ref, input.width, input.height>>
NoDeps == <<>>

depsChanged(old, new) == old = NoDeps \/ \E i \in 1..3 : old[i] # new[i]

\* The first render: the ref is attached and the effect is scheduled.
mountFunctionComponent ==
    /\ variant = "function"
    /\ phase = "constructed"
    /\ svgRef' = "svg"
    /\ effectPending' = depsChanged(deps, Deps(PropsInput(props)))
    /\ deps' = Deps(PropsInput(props))
    /\ phase' = "mounted"
    /\ UNCHANGED <<variant, props, surface, state, updateQueue, nestedUpdateCount,
                   passes, lastDrawn, inputChanges>>

\* The host renders the component again with args; React schedules the effect
\* when a dependency changed.  A pending effect is flushed before a render.
renderFunctionComponent ==
    /\ variant = "function"
    /\ phase = "mounted"
    /\ ~effectPending
    /\ inputChanges < MaxInputChanges
    /\ \E input \in HostInputs :
        /\ props' = Props(TRUE, input)
        /\ effectPending' = depsChanged(deps, Deps(input))
        /\ deps' = Deps(input)
        /\ passes' = IF Deps(input) # deps THEN 0 ELSE passes
        /\ inputChanges' = IF Deps(input) # deps THEN inputChanges + 1 ELSE inputChanges
    /\ UNCHANGED <<variant, svgRef, surface, state, updateQueue, phase,
                   nestedUpdateCount, lastDrawn>>

\* React.useEffect(() => { if (!data || !svgRef.current) return; ... })
useEffect ==
    /\ variant = "function"
    /\ effectPending
    /\ DrawStep(PropsInput(props))
    /\ effectPending' = FALSE
    /\ UNCHANGED <<variant, props, svgRef, state, updateQueue, phase,
                   nestedUpdateCount, deps, inputChanges>>

-----------------------------------------------------------------------------
(* The component in its host *)

Init ==
    /\ variant \in {"class", "function"}
    /\ \E input \in HostInputs, viaArgs \in BOOLEAN :
        /\ variant = "function" => viaArgs
        /\ props = Props(viaArgs, input)
    /\ svgRef = "null"
    /\ surface = <<>>
    /\ state = InitialState
    /\ updateQueue = <<>>
    /\ phase = "constructed"
    /\ nestedUpdateCount = 0
    /\ deps = NoDeps
    /\ effectPending = FALSE
    /\ passes = 0
    /\ lastDrawn = NoInput
    /\ inputChanges = 0

Next ==
    \/ componentDidMount
    \/ componentDidUpdate
    \/ setStateCallback
    \/ maximumUpdateDepthExceeded
    \/ mountFunctionComponent
    \/ renderFunctionComponent
    \/ useEffect

Spec == Init /\ [][Next]_vars

-----------------------------------------------------------------------------
(* The draw pass alone: renderGraph called, up to twice, with this.state    *)
(* holding any input and the <svg> element holding anything                 *)

RenderInit ==
    /\ variant = "class"
    /\ \E input \in RenderInputs :
        /\ props = Props(TRUE, input)
        /\ state = input
    /\ svgRef = "svg"
    /\ surface \in PriorSurfaces
    /\ updateQueue = <<>>
    /\ phase = "render"
    /\ nestedUpdateCount = 0
    /\ deps = NoDeps
    /\ effectPending = FALSE
    /\ passes = 0
    /\ lastDrawn = NoInput
    /\ inputChanges = 0

callRenderGraph ==
    /\ phase = "render"
    /\ passes < 2
    /\ DrawStep(state)
    /\ UNCHANGED <<variant, props, svgRef, state, updateQueue, phase,
                   nestedUpdateCount, deps, effectPending, inputChanges>>

RenderNext == callRenderGraph

RenderSpec == RenderInit /\ [][RenderNext]_vars

-----------------------------------------------------------------------------
(* Properties *)

ValidGrid(data) == Truthy(data) /\ data.numLayers >= 1 /\ data.numTokens >= 1

\* Both endpoints of the pattern lie in [0, numLayers) x [0, numTokens).
InGrid(data, pattern) ==
    /\ pattern.sourceLayer \in 0..(data.numLayers - 1)
    /\ pattern.destLayer \in 0..(data.numLayers - 1)
    /\ pattern.sourceToken \in 0..(data.numTokens - 1)
    /\ pattern.destToken \in 0..(data.numTokens - 1)

InGridPatterns(data) ==
    LET keep(pattern) == InGrid(data, pattern)
    IN  SelectSeq(data.attentionPatterns, keep)

\* The children of the one group on the surface, and those with a given tag.
Drawn == surface[1].children
IsCircle(e) == e.tag = "circle"
IsLine(e) == e.tag = "line"
Circles == SelectSeq(Drawn, IsCircle)
Lines == SelectSeq(Drawn, IsLine)

\* renderGraph has run to its end on the input held in this.state.
PassDone == phase = "render" /\ passes >= 1

\* The position in the row-major node order of the pair (layer, token).
RowMajor(data, layer, token) == layer * data.numTokens + token + 1

\* C1: for every valid grid the node list of a pass has numLayers * numTokens
\* nodes, and the node at row-major position layer * numTokens + token is the
\* pair (layer, token): every pair of the grid once, and no other.
C1_NodeGrid ==
    (phase = "render" /\ ValidGrid(state.data)) =>
        LET data == state.data
            nodes == createNodes(data, state.width, state.height)
        IN  /\ Len(nodes) = data.numLayers * data.numTokens
            /\ \A l \in 0..(data.numLayers - 1), t \in 0..(data.numTokens - 1) :
                /\ nodes[RowMajor(data, l, t)].layer = l
                /\ nodes[RowMajor(data, l, t)].token = t
            /\ passes >= 1 => Len(Circles) = data.numLayers * data.numTokens

C1_Witness ==
    /\ PassDone
    /\ state.data.numLayers = MaxLayers
    /\ state.data.numTokens = MaxTokens
    /\ Len(Circles) = MaxLayers * MaxTokens

\* C2: a pass leaves exactly the group it has drawn on the surface, whatever
\* the surface held before, and a second pass with the same input leaves the
\* surface as the first left it.
C2_Idempotent ==
    [][(phase = "render" /\ passes' = passes + 1) =>
          /\ Len(surface') = 1
          /\ surface'[1].tag = "g"
          /\ passes = 1 => surface' = surface]_vars

C2_Witness ==
    /\ phase = "render"
    /\ passes = 2
    /\ Len(Circles) >= 2
    /\ Len(Lines) >= 1

\* C3: in a pass over a valid grid the lines on the surface are as many as the
\* patterns with both endpoints in the grid; a pattern with an endpoint
\* outside the grid gives no line and does not stop the patterns after it.
C3_EdgeSkip ==
    (PassDone /\ ValidGrid(state.data)) =>
        Len(Lines) = Len(InGridPatterns(state.data))

C3_Witness ==
    /\ PassDone
    /\ ValidGrid(state.data)
    /\ Len(state.data.attentionPatterns) = 2
    /\ state.data.attentionPatterns[1].sourceLayer = state.data.numLayers
    /\ InGrid(state.data, state.data.attentionPatterns[2])
    /\ Len(Lines) = 1

C5_VisualEncoding ==
    (PassDone /\ ValidGrid(state.data)) =>
        LET data == state.data
            drawn == InGridPatterns(data)
        IN  \A k \in 1..Len(Lines) :
                k <= Len(drawn) =>
                    LET line == Lines[k]
                        pattern == drawn[k]
                        source == Circles[RowMajor(data, pattern.sourceLayer, pattern.sourceToken)]
                        target == Circles[RowMajor(data, pattern.destLayer, pattern.destToken)]
                    IN  /\ line.x1 = source.cx /\ line.y1 = source.cy
                        /\ line.x2 = target.cx /\ line.y2 = target.cy
                        /\ line.strokeWidth[1] * pattern.weight[2]
                               = 2 * pattern.weight[1] * line.strokeWidth[2]
                        /\ line.opacity = pattern.weight

C5_Witness ==
    /\ PassDone
    /\ Len(Lines) = 2
    /\ Lines[1].opacity = Rat(1, 2) /\ Lines[1].strokeWidth = Num(1)
    /\ Lines[1].x1 # Lines[1].x2
    /\ Lines[2].opacity = Rat(-1, 4) /\ Lines[2].strokeWidth = Rat(-1, 2)

\* C6 as the specification states it: a pass over a grid with numLayers <= 0
\* or numTokens <= 0 leaves the surface as it was.
C6_InvalidGridRejected ==
    [][(phase = "render" /\ Truthy(state.data)
            /\ (state.data.numLayers <= 0 \/ state.data.numTokens <= 0))
          => surface' = surface]_vars

\* C7 as the specification states it: with a label array shorter than
\* numTokens the pass leaves the surface as it was, and no label on the
\* surface is made from an undefined token.
C7_ShortLabelsRejected ==
    [][(phase = "render" /\ ValidGrid(state.data) /\ state.data.tokens.present
            /\ Len(state.data.tokens.items) < state.data.numTokens)
          => /\ surface' = surface
             /\ \A i \in 1..Len(surface') :
                    \A j \in 1..Len(surface'[i].children) :
                        LET e == surface'[i].children[j]
                        IN  e.tag = "text" =>
                                \A l \in 0..MaxLayers :
                                    e.text # "L" \o ToString(l) \o "-undefined"]_vars

\* C8 as the specification states it: at most one draw pass runs for each
\* input the host supplies, and the updates come to rest.
C8_OnePassPerInput == passes <= 1 /\ phase # "aborted"

\* C9: once a pass has run for the current input, the last pass drew the
\* input the host supplied last; and the surface always holds one whole
\* frame, that of the last input drawn, with nothing of an earlier frame
\* (before the first pass it holds nothing).
C9_NewestInputWins ==
    /\ passes >= 1 => lastDrawn = PropsInput(props)
    /\ lastDrawn = NoInput => surface = <<>>
    /\ lastDrawn # NoInput =>
        /\ Len(surface) = 1
        /\ surface[1] = Group(groupChildren(lastDrawn.data, lastDrawn.width,
                                            lastDrawn.height))

C9_Witness ==
    /\ variant = "function"
    /\ inputChanges >= 2
    /\ passes = 1
    /\ ~effectPending
    /\ lastDrawn = PropsInput(props)
    /\ props.data.ref = 3
    /\ Len(Lines) = 1

\* C10: the group holds the markers in row-major node order, then the labels
\* in the same order, then one line for each pattern with both endpoints in
\* the grid, in the order of attentionPatterns, and nothing else.
C10_DrawOrder ==
    (PassDone /\ Truthy(state.data)) =>
        LET data == state.data
            n == IF ValidGrid(data) THEN data.numLayers * data.numTokens ELSE 0
            drawn == InGridPatterns(data)
        IN  /\ Len(Drawn) = 2 * n + Len(drawn)
            /\ \A k \in 1..Len(Drawn) :
                Drawn[k].tag = IF k <= n THEN "circle"
                               ELSE IF k <= 2 * n THEN "text" ELSE "line"
            /\ \A l \in 0..(data.numLayers - 1), t \in 0..(data.numTokens - 1) :
                LET k == RowMajor(data, l, t)
                IN  /\ Drawn[n + k].x = Drawn[k].cx
                    /\ Drawn[n + k].y = RatSub(Drawn[k].cy, Num(10))
                    /\ Drawn[n + k].text
                         = "L" \o ToString(l) \o "-" \o TemplateValue(label(data.tokens, t))
            /\ \A k \in 1..Len(drawn) :
                /\ Drawn[2 * n + k].opacity = drawn[k].weight
                /\ Drawn[2 * n + k].x1
                     = Drawn[RowMajor(data, drawn[k].sourceLayer, drawn[k].sourceToken)].cx

C10_Witness ==
    /\ PassDone
    /\ state.data.numLayers = 2
    /\ state.data.numTokens = 2
    /\ Len(Drawn) = 10
    /\ Drawn[9].opacity # Drawn[10].opacity
    /\ Drawn[9].opacity = state.data.attentionPatterns[1].weight

====
